---- MODULE Spec2Model ----
(***************************************************************************)
(* A model of the plotting scripts of phillpot-group/plotting-tools:       *)
(*   scripts/plot-lammps-log.py, plot-lammps-rdf.py, plot-vasp-neb.py,     *)
(*   plot-gasp-hull.py, plot-vasp-bandstructure.py and scripts/utils.      *)
(*                                                                         *)
(* Spec      one run of one script, statement by statement, from the       *)
(*           interpreter loading the file to its exit.                     *)
(* SpecGasp  parse_run_data_file on a family of run_data files.            *)
(* SpecLog   parse_lammps_log_file on a family of LAMMPS logs.             *)
(* SpecRdf   _parse_rdf_file and the averaging of main on RDF files.       *)
(* SpecBandFile  parse_band_file on a family of BAND.dat files.            *)
(* SpecKlabels   parse_klabels_file on a family of KLABELS files.          *)
(* SpecNebFile   parse_vasp_neb_file on a family of neb.dat files.         *)
(* SpecLabels    utils.process_label_args.                                 *)
(* SpecCmap      utils._discretize_colormap.                               *)
(*                                                                         *)
(* Text files are sequences of lines, a line is the sequence of its        *)
(* whitespace-separated tokens, numeric tokens are integers (the scripts   *)
(* only add, compare and divide them; quotients are kept as fractions).    *)
(***************************************************************************)
EXTENDS Integers, Sequences, FiniteSets, TLC

VARIABLES
    script,     \* which program runs: a script name, or the parser under study
    pc,         \* position of the run
    args,       \* the argparse namespace (module-global `args`)
    env,        \* the files the run finds on disk
    handles,    \* file handles currently open
    figures,    \* number of figures written by plt.savefig
    shown,      \* number of interactive windows opened by plotter.show()
    mainCalls,  \* number of times main(args) was entered
    err,        \* the exception that ended the run, NoErr if none
    loc,        \* local variables of the function being executed
    result      \* value returned by the parser / plotted by main

vars == <<script, pc, args, env, handles, figures, shown, mainCalls, err, loc, result>>

----------------------------------------------------------------------------
(* Bounds of the model. *)

MaxSeries == 2      \* largest number of input files / columns / properties
MaxOpt == 3         \* longest --color / --label / --linestyle list
MaxBins == 2        \* most body lines of one RDF block
MaxRows == 2        \* most data rows of a run_data file
MaxLogRows == 2     \* most data rows of a LAMMPS log

----------------------------------------------------------------------------
(* Python values. *)

NoErr == "none"
None == [given |-> FALSE, n |-> 0]                 \* an option that was not passed
OptList(k) == [given |-> TRUE, n |-> k]            \* nargs="*" list of k values
OptLists == {None} \cup {OptList(k) : k \in 0..MaxOpt}
\* `if args.color:` -- None and the empty list are both falsy.
Truthy(o) == o.given /\ o.n > 0

Range(s) == {s[i] : i \in DOMAIN s}
Min(S) == CHOOSE x \in S : \A y \in S : x <= y
Max(S) == CHOOSE x \in S : \A y \in S : x >= y
\* Python slice s[a:b] on 0-based indices, clipped at the end of the list.
Slice(s, a, b) == [k \in 1..(Min({b, Len(s)}) - Min({a, Len(s)})) |-> s[Min({a, Len(s)}) + k]]
RECURSIVE SumSeq(_)
SumSeq(s) == IF s = <<>> THEN 0 ELSE Head(s) + SumSeq(Tail(s))
SeqsUpTo(S, n) == UNION {[1..k -> S] : k \in 0..n}

----------------------------------------------------------------------------
(* Tokens.  line.split() gives a sequence of tokens; a token is a numeral  *)
(* (an integer here) or Word, any text float() and int() reject; Word is   *)
(* encoded by an integer no numeral of the inputs takes.                   *)

Word == 0 - 1000
IsNum(t) == t # Word
\* [float(elem.strip()) for elem in line.split()] raises on the first word.
FloatAll(line) == IF \A k \in DOMAIN line : IsNum(line[k]) THEN NoErr ELSE "ValueError"
\* The first exception raised while iterating, in iteration order.
RECURSIVE FirstErr(_)
FirstErr(es) ==
    IF es = <<>> THEN NoErr
    ELSE IF Head(es) # NoErr THEN Head(es) ELSE FirstErr(Tail(es))
\* Quotient n/d of two integers, d # 0, as a fraction in lowest terms with a
\* positive denominator.
RECURSIVE Gcd(_, _)
Gcd(a, b) == IF b = 0 THEN a ELSE Gcd(b, a % b)
Abs(a) == IF a < 0 THEN 0 - a ELSE a
Frac(n, d) ==
    LET g == Gcd(Abs(n), Abs(d))
        sn == IF d < 0 THEN 0 - n ELSE n
    IN  [num |-> IF sn < 0 THEN 0 - (Abs(sn) \div g) ELSE sn \div g, den |-> Abs(d) \div g]

----------------------------------------------------------------------------
(* plot-lammps-rdf.py: the parser.                                         *)

\* number of times col occurs in the --column list
Occurrences(columns, col) == Cardinality({j \in DOMAIN columns : columns[j] = col})

\* an offset that skips the bin id column only
offset_id_skipping_one(col_id) == col_id + 1

\* offset_id = col_id + 2: the 0-based position, among the tokens of a body
\* line, of g(r) column col_id
offset_id(col_id) == col_id + 2

_parse_rdf_distances(lines) ==
    LET e == [k \in DOMAIN lines |->
                IF FloatAll(lines[k]) # NoErr THEN "ValueError"
                ELSE IF Len(lines[k]) < 2 THEN "IndexError" ELSE NoErr]
    IN  IF FirstErr(e) # NoErr THEN [err |-> FirstErr(e), val |-> <<>>]
        ELSE [err |-> NoErr, val |-> [k \in DOMAIN lines |-> lines[k][2]]]

\* block_data = {col: [] for col in columns}; every line appends one value
\* to block_data[col_id] for each col_id of the list, in list order.
_parse_rdf_block(lines, columns) ==
    LET e == [k \in DOMAIN lines |->
                IF FloatAll(lines[k]) # NoErr THEN "ValueError"
                ELSE IF \E j \in DOMAIN columns : offset_id(columns[j]) >= Len(lines[k])
                     THEN "IndexError" ELSE NoErr]
        data == [col \in Range(columns) |->
                    LET c == Occurrences(columns, col) IN
                    [m \in 1..(Len(lines) * c) |->
                        lines[((m - 1) \div c) + 1][offset_id(col) + 1]]]
    IN  IF FirstErr(e) # NoErr THEN [err |-> FirstErr(e), val |-> <<>>]
        ELSE [err |-> NoErr, val |-> data]

\* lines[i+1:i+1+nrows]: the slice stops at the end of the list.
BlockLines(lines, i, nrows) == Slice(lines, i + 1, i + 1 + nrows)

\* One iteration of `for i, line in enumerate(lines)` (i is 0-based) on the
\* loop state st = [distances, column_data]; the result carries err.
RdfScanStep(lines, i, columns, st) ==
    LET split_line == lines[i + 1] IN
    IF Len(split_line) # 2 THEN [err |-> NoErr, st |-> st]
    ELSE IF ~IsNum(split_line[2]) THEN [err |-> "ValueError", st |-> st]
    ELSE
      LET nrows == split_line[2]
          _lines == BlockLines(lines, i, nrows)
          block == _parse_rdf_block(_lines, columns)
          dist == IF st.distances.given THEN [err |-> NoErr, val |-> st.distances.val]
                  ELSE _parse_rdf_distances(_lines)
      IN  IF block.err # NoErr THEN [err |-> block.err, st |-> st]
          ELSE IF dist.err # NoErr THEN [err |-> dist.err, st |-> st]
          ELSE [err |-> NoErr,
                st |-> [distances |-> [given |-> TRUE, val |-> dist.val],
                        column_data |->
                          [col \in Range(columns) |->
                             st.column_data[col] \o
                               [m \in 1..Occurrences(columns, col) |-> block.val[col]]]]]

\* np.array(list of lists): a ragged list has no array form.
IsRagged(blocks) == \E a, b \in DOMAIN blocks : Len(blocks[a]) # Len(blocks[b])

\* np.mean(a, axis=0) of an n_blocks x N array, n_blocks >= 1.
MeanAxis0(blocks) ==
    [k \in 1..Len(blocks[1]) |->
        Frac(SumSeq([b \in DOMAIN blocks |-> blocks[b][k]]), Len(blocks))]

----------------------------------------------------------------------------
(* scripts/utils/__init__.py                                               *)

\* the names utils defines at module level
UtilsNames ==
    {"_discretize_colormap", "_make_linear_colormap", "load_configuration",
     "load_positions_from_lammps_dump_file", "process_color_and_cmap_args",
     "process_label_args"}

\* `from utils import ...` of each script (plot-gasp-hull imports nothing of it)
ImportedFromUtils(s) ==
    CASE s = "log" -> {"discretize_colormap", "load_configuration", "make_linear_colormap"}
      [] s = "rdf" -> {"load_configuration", "process_color_and_cmap_args", "process_label_args"}
      [] s = "neb" -> {"load_configuration", "process_color_and_cmap_args", "process_label_args"}
      [] s = "band" -> {"load_configuration"}
      [] OTHER -> {}

\* The indices of the source colormap (of size N) that _discretize_colormap
\* keeps for n_colors colours; int(cmap.N / (n_colors - 1)) divides by zero
\* for a single colour.
_discretize_colormap(N, n_colors) ==
    IF n_colors - 1 = 0 THEN [err |-> "ZeroDivisionError", val |-> {}]
    ELSE LET step == N \div (n_colors - 1)
             valid_indices == [i \in 1..n_colors |-> IF i = 1 THEN 0 ELSE (i - 1) * step - 1]
         IN  [err |-> NoErr, val |-> {i \in 0..(N - 1) : i \in Range(valid_indices)}]

\* The exception process_color_and_cmap_args raises, if any.
process_color_and_cmap_args(a, n_series) ==
    IF Truthy(a.color) THEN NoErr
    ELSE IF ~a.cmap.given THEN NoErr
    ELSE _discretize_colormap(a.cmap.N, n_series).err

\* the variant that asks for a legend on both branches
process_label_args_always_legend(a, n_series) ==
    IF Truthy(a.label)
    THEN [render_legend |-> TRUE, n_labels |-> a.label.n, supplied |-> TRUE]
    ELSE [render_legend |-> TRUE, n_labels |-> n_series, supplied |-> FALSE]

\* (render_legend, labels): labels is modelled by its length and by whether
\* it is the list the user passed.
process_label_args(a, n_series) ==
    IF Truthy(a.label)
    THEN [render_legend |-> TRUE, n_labels |-> a.label.n, supplied |-> TRUE]
    ELSE [render_legend |-> FALSE, n_labels |-> n_series, supplied |-> FALSE]

----------------------------------------------------------------------------
(* Argument validation of the __main__ blocks.                             *)

\* `e.args += "<message>"` inside `except AssertionError as e:` adds a str to
\* a tuple: the statement itself raises, before any `raise` that follows it.
AppendMessage == "TypeError"

\* try: assert cond / except AssertionError as e: e.args += msg [; raise]
\* -- the exception that leaves the try statement.
AssertWithMessage(cond, reraises) ==
    IF cond THEN NoErr
    ELSE IF AppendMessage # NoErr THEN AppendMessage
    ELSE IF reraises THEN "AssertionError"
    ELSE NoErr

\* plot-lammps-rdf.py, lines 139-151
ValidateRdf(a) ==
    FirstErr(<<
        IF Truthy(a.color) THEN AssertWithMessage(a.color.n = Len(a.column), TRUE) ELSE NoErr,
        IF Truthy(a.label) THEN AssertWithMessage(a.label.n = Len(a.column), FALSE) ELSE NoErr >>)

\* plot-vasp-neb.py, lines 124-146
ValidateNeb(a) ==
    LET n_inputs == a.input IN
    FirstErr(<<
        IF Truthy(a.label) THEN AssertWithMessage(a.label.n = n_inputs, TRUE) ELSE NoErr,
        IF Truthy(a.color) THEN AssertWithMessage(a.color.n = n_inputs, TRUE) ELSE NoErr,
        IF Truthy(a.linestyle) THEN AssertWithMessage(a.linestyle.n = n_inputs, FALSE) ELSE NoErr >>)

\* plot-lammps-log.py, lines 153-185: the two cardinality checks, then the
\* colour and label counts against n_series
ValidateLog(a) ==
    LET n_series == a.input * Len(a.property) IN
    FirstErr(<<
        IF Len(a.property) > 1 THEN AssertWithMessage(a.input = 1, TRUE) ELSE NoErr,
        IF a.input > 1 THEN AssertWithMessage(Len(a.property) = 1, TRUE) ELSE NoErr,
        IF Truthy(a.color) THEN AssertWithMessage(a.color.n = n_series, TRUE) ELSE NoErr,
        IF Truthy(a.label) THEN AssertWithMessage(a.label.n = n_series, TRUE) ELSE NoErr >>)

\* the checks without the one on --elemental
ValidateBandOrbitalOnly(a) ==
    IF a.orbital THEN "NotImplementedError" ELSE NoErr

\* plot-vasp-bandstructure.py, lines 257-263
ValidateBand(a) ==
    IF a.elemental THEN "NotImplementedError"
    ELSE IF a.orbital THEN "NotImplementedError"
    ELSE NoErr

\* whether the __main__ block ends with a call of main(args)
CallsMain(s) == s \in {"log", "rdf", "neb", "gasp"}
\* whether the __main__ block starts with load_configuration()
LoadsConfiguration(s) == s \in {"log", "rdf", "neb", "band"}

Validate(s, a) ==
    CASE s = "rdf" -> ValidateRdf(a)
      [] s = "neb" -> ValidateNeb(a)
      [] s = "band" -> ValidateBand(a)
      [] s = "log" -> ValidateLog(a)
      [] OTHER -> NoErr

----------------------------------------------------------------------------
(* The run of a script up to main(args).                                   *)

ConfigHandle == [file |-> "configuration.json", idx |-> 0]
InputHandle(i) == [file |-> "input", idx |-> i]

Fail(e) ==
    /\ pc' = "failed"
    /\ err' = e

\* The interpreter executes the import statements at the top of the file.
Import ==
    /\ pc = "import"
    /\ IF ImportedFromUtils(script) \subseteq UtilsNames
       THEN /\ pc' = IF LoadsConfiguration(script) THEN "load_configuration" ELSE "parse_args"
            /\ err' = err
       ELSE Fail("ImportError")
    /\ UNCHANGED <<script, args, env, handles, figures, shown, mainCalls, loc, result>>

\* load_configuration(): with open("configuration.json", "r") as f:
OpenConfiguration ==
    /\ pc = "load_configuration"
    /\ IF env.config = "missing"
       THEN Fail("FileNotFoundError") /\ handles' = handles
       ELSE /\ pc' = "json_load"
            /\ err' = err
            /\ handles' = handles \cup {ConfigHandle}
    /\ UNCHANGED <<script, args, env, figures, shown, mainCalls, loc, result>>

\* json.load(f) and the end of the with block, which closes f on both paths;
\* then plt.rcParams.update(global_config).
ReadConfiguration ==
    /\ pc = "json_load"
    /\ handles' = handles \ {ConfigHandle}
    /\ IF env.config = "invalid"
       THEN Fail("JSONDecodeError")
       ELSE pc' = "parse_args" /\ err' = err
    /\ UNCHANGED <<script, args, env, figures, shown, mainCalls, loc, result>>

\* parser.parse_args(): argparse.FileType("r") opens every --input path.
ParseArgs ==
    /\ pc = "parse_args"
    /\ handles' = handles \cup {InputHandle(i) : i \in 1..Len(env.files)}
    /\ pc' = "validate"
    /\ UNCHANGED <<script, args, env, figures, shown, mainCalls, err, loc, result>>

\* The checks between parse_args() and the end of the __main__ block.
ValidateArgs ==
    /\ pc = "validate"
    /\ IF Validate(script, args) # NoErr
       THEN Fail(Validate(script, args))
       ELSE /\ pc' = IF CallsMain(script) THEN "main" ELSE "done"
            /\ err' = err
    /\ UNCHANGED <<script, args, env, handles, figures, shown, mainCalls, loc, result>>

----------------------------------------------------------------------------
(* plot-vasp-neb.py: the parser.  Quotients are fractions in lowest terms. *)

\* the divisor taken from the end of the path instead of the maximum
last_pos(positions) == positions[Len(positions)]

\* line 29: max_pos = max(positions)
max_pos(positions) == Max(Range(positions))

parse_vasp_neb_file(lines) ==
    LET e_pos == [k \in DOMAIN lines |->
                    IF Len(lines[k]) < 2 THEN "IndexError"
                    ELSE IF ~IsNum(lines[k][2]) THEN "ValueError" ELSE NoErr]
        e_en == [k \in DOMAIN lines |->
                    IF Len(lines[k]) < 3 THEN "IndexError"
                    ELSE IF ~IsNum(lines[k][3]) THEN "ValueError" ELSE NoErr]
        e == FirstErr(e_pos \o e_en)
        positions == [k \in DOMAIN lines |-> lines[k][2]]
        energies == [k \in DOMAIN lines |-> lines[k][3]]
        bad(x) == [err |-> x, energies |-> <<>>, scaled_positions |-> <<>>]
    IN  IF e # NoErr THEN bad(e)
        ELSE IF lines = <<>> THEN bad("ValueError")           \* max() of an empty list
        ELSE IF max_pos(positions) = 0 THEN bad("ZeroDivisionError")
        ELSE [err |-> NoErr, energies |-> energies,
              scaled_positions |-> [k \in DOMAIN lines |-> Frac(positions[k], max_pos(positions))]]

----------------------------------------------------------------------------
(* plot-gasp-hull.py: the parser.                                          *)
(* A composition is the count of each element; pymatgen's Composition is   *)
(* modelled by what the script uses of it: num_atoms, reduced_formula (the *)
(* counts divided by their gcd, standing for the canonical formula string) *)
(* and get_atomic_fraction, which accepts only an element symbol.          *)

Elements == {"A", "B"}
Comp(a, b) == [e \in Elements |-> IF e = "A" THEN a ELSE b]
num_atoms(c) == c["A"] + c["B"]
reduced_formula(c) ==
    LET g == Gcd(c["A"], c["B"]) IN [e \in Elements |-> c[e] \div g]
IsElementSymbol(f) == num_atoms(f) = 1
ElementOf(f) == CHOOSE e \in Elements : f[e] = 1
get_atomic_fraction(c, f) == Frac(c[ElementOf(f)], num_atoms(c))

\* Lines of a run_data file.
BlankLine == [kind |-> "blank", endpoints |-> <<>>, composition |-> Comp(0, 0),
              total_energy |-> 0, epa |-> 0]
EndpointsLine(es) == [kind |-> "endpoints", endpoints |-> es, composition |-> Comp(0, 0),
                      total_energy |-> 0, epa |-> 0]
HeaderLine == [kind |-> "header", endpoints |-> <<>>, composition |-> Comp(0, 0),
               total_energy |-> 0, epa |-> 0]
RowLine(c, etot, epa) == [kind |-> "row", endpoints |-> <<>>, composition |-> c,
                          total_energy |-> etot, epa |-> epa]

\* lines = [line for line in lines if len(line) > 0]
RECURSIVE NonBlank(_)
NonBlank(ls) ==
    IF ls = <<>> THEN <<>>
    ELSE IF Head(ls).kind = "blank" THEN NonBlank(Tail(ls))
    ELSE <<Head(ls)>> \o NonBlank(Tail(ls))

\* the keys of endpoint_energy, in insertion order: a dict keeps one entry
\* per reduced formula
RECURSIVE DictKeys(_)
DictKeys(fs) ==
    IF fs = <<>> THEN <<>>
    ELSE LET rest == DictKeys(SubSeq(fs, 1, Len(fs) - 1))
             f == fs[Len(fs)]
         IN  IF f \in Range(rest) THEN rest ELSE Append(rest, f)

\* lines 50-57: endpoint_energy[endpoint] starts at 0 and is lowered by each
\* matching row whose epa is below the current value.
RECURSIVE LowestEpaFrom(_, _, _)
LowestEpaFrom(current_min, endpoint, rows) ==
    IF rows = <<>> THEN current_min
    ELSE LET row == Head(rows) IN
         IF reduced_formula(row.composition) = endpoint /\ row.epa < current_min
         THEN LowestEpaFrom(row.epa, endpoint, Tail(rows))
         ELSE LowestEpaFrom(current_min, endpoint, Tail(rows))
endpoint_energy_of(endpoint, rows) == LowestEpaFrom(0, endpoint, rows)

\* the atomic fraction taken for the number of atoms (num_atoms not applied)
n_atoms_unscaled(c, endpoint) ==
    LET atom_frac == get_atomic_fraction(c, endpoint) IN
    atom_frac.num \div atom_frac.den

\* lines 58-68: comp.num_atoms * comp.get_atomic_fraction(endpoint)
n_atoms_of(c, endpoint) ==
    LET atom_frac == get_atomic_fraction(c, endpoint) IN
    (num_atoms(c) * atom_frac.num) \div atom_frac.den

\* lines 70-75: etotal -= endpoint_energy[k] * row[f"n_atoms_{k}"], k in key order
RECURSIVE SubtractReferences(_, _, _, _)
SubtractReferences(etotal, keys, energy, c) ==
    IF keys = <<>> THEN etotal
    ELSE SubtractReferences(etotal - energy[Head(keys)] * n_atoms_of(c, Head(keys)),
                            Tail(keys), energy, c)

parse_run_data_file(file) ==
    LET lines == NonBlank(file)
        bad(x) == [err |-> x, endpoint_energy |-> <<>>, keys |-> <<>>, entries |-> <<>>]
    IN
    IF Len(lines) < 2 THEN bad("IndexError")                  \* lines.pop(0) of an empty list
    ELSE
      LET first_line == lines[1]
          rows == SubSeq(lines, 3, Len(lines))
          endpoints == first_line.endpoints
          keys == DictKeys([k \in DOMAIN endpoints |-> reduced_formula(endpoints[k])])
          energy == [f \in Range(keys) |-> endpoint_energy_of(f, rows)]
      IN
      IF rows = <<>> THEN bad("EmptyDataError")               \* pd.read_csv of an empty buffer
      ELSE IF \E k \in DOMAIN keys : ~IsElementSymbol(keys[k]) THEN bad("TypeError")
      ELSE [err |-> NoErr, endpoint_energy |-> energy, keys |-> keys,
            entries |-> [k \in DOMAIN rows |->
                           [composition |-> rows[k].composition,
                            eform |-> SubtractReferences(rows[k].total_energy, keys, energy,
                                                         rows[k].composition)]]]

----------------------------------------------------------------------------
(* main(args) of the scripts.                                              *)

NoLoc == [i |-> 0]

\* main(args) with plt.savefig moved to its top, before anything is parsed
EnterMainSavingFirst ==
    /\ pc = "main"
    /\ mainCalls' = mainCalls + 1
    /\ figures' = figures + 1
    /\ pc' = CASE script = "rdf" -> "rdf_readlines"
               [] script = "neb" -> "neb_cosmetics"
               [] script = "gasp" -> "gasp_parse"
               [] OTHER -> "log_cosmetics"
    /\ UNCHANGED <<script, args, env, handles, shown, err, loc, result>>

\* main(args) is entered; its first statements differ per script.
EnterMain ==
    /\ pc = "main"
    /\ mainCalls' = mainCalls + 1
    /\ pc' = CASE script = "rdf" -> "rdf_readlines"
               [] script = "neb" -> "neb_cosmetics"
               [] script = "gasp" -> "gasp_parse"
               [] OTHER -> "log_cosmetics"
    /\ UNCHANGED <<script, args, env, handles, figures, shown, err, loc, result>>

\* plt.savefig(args.output, dpi=300), the last statement of main; the file
\* cannot be created when the directory of args.output does not exist.
Savefig ==
    /\ pc = "savefig"
    /\ IF env.outdir = "missing"
       THEN Fail("FileNotFoundError") /\ figures' = figures
       ELSE /\ figures' = figures + 1
            /\ pc' = "done"
            /\ err' = err
    /\ UNCHANGED <<script, args, env, handles, shown, mainCalls, loc, result>>

(* ---- plot-lammps-rdf.py ---- *)

\* _parse_rdf_file: fp.readlines(), lines = lines[2:], distances = None,
\* column_data = {i: [] for i in columns}
RdfReadLines ==
    /\ pc = "rdf_readlines"
    /\ loc' = [lines |-> Slice(env.files[1], 2, Len(env.files[1])),
               i |-> 0,
               st |-> [distances |-> [given |-> FALSE, val |-> <<>>],
                       column_data |-> [col \in Range(args.column) |-> <<>>]]]
    /\ pc' = "rdf_scan"
    /\ UNCHANGED <<script, args, env, handles, figures, shown, mainCalls, err, result>>

\* one iteration of the scan loop of _parse_rdf_file
RdfScanLine ==
    /\ pc = "rdf_scan"
    /\ loc.i < Len(loc.lines)
    /\ LET r == RdfScanStep(loc.lines, loc.i, args.column, loc.st) IN
       IF r.err # NoErr
       THEN Fail(r.err) /\ loc' = loc
       ELSE /\ loc' = [loc EXCEPT !.i = loc.i + 1, !.st = r.st]
            /\ UNCHANGED <<pc, err>>
    /\ UNCHANGED <<script, args, env, handles, figures, shown, mainCalls, result>>

\* column_data[col] = np.array(column_data[col]); return distances, column_data
RdfToArrays ==
    /\ pc = "rdf_scan"
    /\ loc.i = Len(loc.lines)
    /\ IF \E col \in Range(args.column) : IsRagged(loc.st.column_data[col])
       THEN Fail("ValueError") /\ result' = result
       ELSE /\ result' = [distances |-> loc.st.distances,
                          column_data |-> loc.st.column_data,
                          curves |-> <<>>]
            /\ pc' = "rdf_cosmetics"
            /\ err' = err
    /\ UNCHANGED <<script, args, env, handles, figures, shown, mainCalls, loc>>

\* process_label_args, process_color_and_cmap_args, plt.subplots
RdfCosmetics ==
    /\ pc = "rdf_cosmetics"
    /\ LET e == process_color_and_cmap_args(args, Len(args.column)) IN
       IF e # NoErr THEN Fail(e) ELSE pc' = "rdf_plot" /\ err' = err
    /\ UNCHANGED <<script, args, env, handles, figures, shown, mainCalls, loc, result>>

\* The plotting loop of main: data = np.mean(column_data[col_id], axis=0) and
\* ax.plot(distances, data, label=labels[i], ...), which needs both of the
\* same length.  With no block at all distances is None and the mean is NaN:
\* what the plotting library does then is either to raise or to draw nothing.
RdfPlot ==
    /\ pc = "rdf_plot"
    /\ LET labels == process_label_args(args, Len(args.column))
           data(j) == MeanAxis0(result.column_data[args.column[j]])
           e == [j \in DOMAIN args.column |->
                   IF j > labels.n_labels THEN "IndexError"
                   ELSE IF Len(data(j)) # Len(result.distances.val) THEN "ValueError"
                   ELSE NoErr]
       IN
       IF ~result.distances.given
       THEN \E raises \in BOOLEAN :
              IF raises THEN Fail("TypeError") /\ result' = result
              ELSE pc' = "savefig" /\ err' = err /\ result' = result
       ELSE IF FirstErr(e) # NoErr
       THEN Fail(FirstErr(e)) /\ result' = result
       ELSE /\ result' = [result EXCEPT !.curves = [j \in DOMAIN args.column |-> data(j)]]
            /\ pc' = "savefig"
            /\ err' = err
    /\ UNCHANGED <<script, args, env, handles, figures, shown, mainCalls, loc>>

(* ---- plot-vasp-neb.py ---- *)

\* plt.subplots, process_label_args, the linestyle default,
\* process_color_and_cmap_args
NebCosmetics ==
    /\ pc = "neb_cosmetics"
    /\ LET e == process_color_and_cmap_args(args, args.input) IN
       IF e # NoErr THEN Fail(e) /\ loc' = loc
       ELSE /\ loc' = [i |-> 0,
                       n_labels |-> process_label_args(args, args.input).n_labels,
                       n_linestyles |-> IF Truthy(args.linestyle) THEN args.linestyle.n
                                        ELSE args.input]
            /\ pc' = "neb_loop"
            /\ err' = err
    /\ UNCHANGED <<script, args, env, handles, figures, shown, mainCalls, result>>

\* one iteration of `for i, fp in enumerate(args.input)`: parse, plot, scatter
NebPlotSeries ==
    /\ pc = "neb_loop"
    /\ loc.i < args.input
    /\ LET r == parse_vasp_neb_file(env.files[loc.i + 1])
           e == FirstErr(<<r.err,
                           IF loc.i >= loc.n_labels THEN "IndexError" ELSE NoErr,
                           IF loc.i >= loc.n_linestyles THEN "IndexError" ELSE NoErr>>)
       IN
       IF e # NoErr THEN Fail(e) /\ UNCHANGED <<loc, result>>
       ELSE /\ result' = Append(result, r)
            /\ loc' = [loc EXCEPT !.i = loc.i + 1]
            /\ pc' = IF loc.i + 1 = args.input THEN "savefig" ELSE "neb_loop"
            /\ err' = err
    /\ UNCHANGED <<script, args, env, handles, figures, shown, mainCalls>>

(* ---- plot-gasp-hull.py ---- *)

\* entries = parse_run_data_file(args.input)
GaspParse ==
    /\ pc = "gasp_parse"
    /\ LET r == parse_run_data_file(env.files[1]) IN
       IF r.err # NoErr THEN Fail(r.err) /\ result' = result
       ELSE result' = r /\ pc' = "gasp_show" /\ err' = err
    /\ UNCHANGED <<script, args, env, handles, figures, shown, mainCalls, loc>>

\* PhaseDiagram(entries); PDPlotter(...).show() -- main returns after the
\* window is closed; args.output is never read.
GaspShow ==
    /\ pc = "gasp_show"
    /\ shown' = shown + 1
    /\ pc' = "done"
    /\ UNCHANGED <<script, args, env, handles, figures, mainCalls, err, loc, result>>

----------------------------------------------------------------------------
(* plot-lammps-log.py: parse_lammps_log_file, statement by statement.      *)
(* A log is [empty, headings, rows]: the tokens of its first line and of   *)
(* each later line; empty marks a file with no line at all.                *)

\* headings_map = {heading: index ...}: the last position of a repeated
\* heading wins; positions are 0-based.
headings_map(headings, name) ==
    Max({k \in DOMAIN headings : headings[k] = name}) - 1

\* [conv(segment[headings_map[name]]) for segment in segments]; float and
\* int both accept the numerals of the model.
ExtractColumn(headings, segments, name) ==
    IF segments = <<>> THEN [err |-> NoErr, val |-> <<>>]
    ELSE IF name \notin Range(headings) THEN [err |-> "KeyError", val |-> <<>>]
    ELSE LET idx == headings_map(headings, name)
             e == [k \in DOMAIN segments |->
                     IF idx >= Len(segments[k]) THEN "IndexError"
                     ELSE IF ~IsNum(segments[k][idx + 1]) THEN "ValueError" ELSE NoErr]
         IN  IF FirstErr(e) # NoErr THEN [err |-> FirstErr(e), val |-> <<>>]
             ELSE [err |-> NoErr, val |-> [k \in DOMAIN segments |-> segments[k][idx + 1]]]

\* lines 27-35: read the lines, split the first one, assert "Step" in headings
LogReadHeader ==
    /\ pc = "log_parse"
    /\ LET fp == env.files[1] IN
       IF fp.empty THEN Fail("IndexError") /\ loc' = loc          \* lines[0]
       ELSE IF AssertWithMessage("Step" \in Range(fp.headings), TRUE) # NoErr
       THEN Fail(AssertWithMessage("Step" \in Range(fp.headings), TRUE)) /\ loc' = loc
       ELSE /\ loc' = [loc EXCEPT !.headings = fp.headings]
            /\ pc' = "log_tokenize"
            /\ err' = err
    /\ UNCHANGED <<script, args, env, handles, figures, shown, mainCalls, result>>

\* line 40: segments = [line.split() for line in lines[1:]]
LogTokenize ==
    /\ pc = "log_tokenize"
    /\ loc' = [loc EXCEPT !.segments = env.files[1].rows, !.tokenized = Len(env.files[1].rows)]
    /\ pc' = "log_extract"
    /\ UNCHANGED <<script, args, env, handles, figures, shown, mainCalls, err, result>>

\* lines 42-48: the dict comprehension over args.property (the module-global
\* namespace, not the parameter property_names), then the steps; return.
LogExtract ==
    /\ pc = "log_extract"
    /\ LET cols == [k \in DOMAIN args.property |->
                      ExtractColumn(loc.headings, loc.segments, args.property[k])]
           steps == ExtractColumn(loc.headings, loc.segments, "Step")
           e == FirstErr([k \in DOMAIN cols |-> cols[k].err] \o <<steps.err>>)
       IN
       IF e # NoErr THEN Fail(e) /\ result' = result
       ELSE /\ result' = [steps |-> steps.val,
                          properties |-> [name \in Range(args.property) |->
                              ExtractColumn(loc.headings, loc.segments, name).val]]
            /\ pc' = "returned"
            /\ err' = err
    /\ UNCHANGED <<script, args, env, handles, figures, shown, mainCalls, loc>>

----------------------------------------------------------------------------
(* Input files.                                                            *)

RECURSIVE Flatten(_)
Flatten(ss) == IF ss = <<>> THEN <<>> ELSE Head(ss) \o Flatten(Tail(ss))

\* RDF files: two comment lines, then blocks.  A block is a header line
\* (timestep, declared row count) and `actual` body lines
\* (bin id, distance, g(r) column 0, g(r) column 1).
Comment == <<Word, Word, Word>>
RdfRow(base, k) == <<k, 10 * k, base + k - 1, 2 * (base + k)>>
RdfBlock(b) == <<<<100, b.declared>>>> \o [k \in 1..b.actual |-> RdfRow(b.base, k)]
RdfFile(bs) == <<Comment, Comment>> \o Flatten([k \in DOMAIN bs |-> RdfBlock(bs[k])])
B(base, declared, actual) == [base |-> base, declared |-> declared, actual |-> actual]
RdfBlockSpecs == {B(base, d, a) : base \in {1, 3}, d \in 0..MaxBins, a \in 0..MaxBins}
RdfBlockLists == SeqsUpTo(RdfBlockSpecs, 2)
RdfColumnLists == {<<0>>, <<1>>, <<0, 1>>, <<1, 0>>, <<0, 0>>, <<2>>}
\* a file whose only block has a body line cut after the bin id
RdfCutFile == <<Comment, Comment, <<100, 1>>, <<1>>>>
\* a file whose block header declares a row count that is not a number
RdfWordFile == <<Comment, Comment, <<100, Word>>, RdfRow(1, 1)>>
RdfFiles == {RdfFile(bs) : bs \in RdfBlockLists} \cup {RdfCutFile, RdfWordFile}
\* the files the runs of the whole script are given
RdfScriptFiles ==
    {RdfFile(<<B(1, 2, 2), B(3, 2, 2)>>), RdfFile(<<B(1, 2, 2), B(3, 2, 1)>>), RdfCutFile}

\* neb.dat files: lines (image, position, energy, force, image)
NebGoodFile == <<<<0, 0, 0, 0, 0>>, <<1, 5, 3, 0, 1>>, <<2, 10, 1, 0, 2>>>>
NebScriptFiles == {NebGoodFile, <<<<0, 0, 0, 0, 0>>>>, <<<<0>>>>}

\* run_data files
GaspComps == {Comp(1, 0), Comp(2, 0), Comp(0, 1), Comp(1, 1)}
EpaValues == {0 - 2, 0 - 1, 1}
GaspRows == {RowLine(c, e * num_atoms(c), e) : c \in GaspComps, e \in EpaValues}
GaspEndpointLists ==
    {<<Comp(1, 0)>>, <<Comp(1, 0), Comp(0, 1)>>, <<Comp(2, 0), Comp(1, 0)>>, <<Comp(1, 1)>>}
\* a blank line before every line of the file
WithBlankLines(f) == Flatten([k \in DOMAIN f |-> <<BlankLine, f[k]>>])
GaspFiles ==
    LET plain == {<<EndpointsLine(es), HeaderLine>> \o rows :
                     es \in GaspEndpointLists, rows \in SeqsUpTo(GaspRows, MaxRows)}
                 \cup {<<>>, <<EndpointsLine(<<Comp(1, 0)>>)>>}
    IN  plain \cup {WithBlankLines(f) : f \in plain}
GaspGoodFile ==
    <<EndpointsLine(<<Comp(1, 0), Comp(0, 1)>>), HeaderLine,
      RowLine(Comp(1, 0), 0 - 2, 0 - 2), RowLine(Comp(0, 1), 0 - 1, 0 - 1),
      RowLine(Comp(1, 1), 0 - 4, 0 - 2)>>
GaspScriptFiles == {GaspGoodFile, <<EndpointsLine(<<Comp(1, 0)>>)>>}

\* LAMMPS logs
LogHeadingNames == {"Step", "Temp", "Press"}
PropertyNames == <<"Temp", "Press", "Volume", "PotEng">>
LogRow(v, width) == [c \in 1..width |-> 10 * v + c]
\* full rows, and a row cut after its first token
LogRowsOf(width) == {LogRow(v, width) : v \in {1, 2}} \cup {<<7>>}
LogFiles ==
    UNION {{[empty |-> FALSE, headings |-> h, rows |-> r] :
               r \in SeqsUpTo(LogRowsOf(Len(h)), MaxLogRows)} :
           h \in SeqsUpTo(LogHeadingNames, 3)}
    \cup {[empty |-> TRUE, headings |-> <<>>, rows |-> <<>>]}
LogPropertyLists ==
    {p \in SeqsUpTo({"Temp", "Volume"}, 2) : p # <<>>}

----------------------------------------------------------------------------
(* Command lines.                                                          *)

Scripts == {"log", "rdf", "neb", "gasp", "band"}
NoCmap == [given |-> FALSE, N |-> 0]
Cmaps == {NoCmap, [given |-> TRUE, N |-> 8]}
NoArgs ==
    [input |-> 0, column |-> <<>>, property |-> <<>>, color |-> None, label |-> None,
     linestyle |-> None, cmap |-> NoCmap, elemental |-> FALSE, spin |-> FALSE,
     orbital |-> FALSE]

ArgsOf(s) ==
    CASE s = "rdf" ->
           {[NoArgs EXCEPT !.input = 1, !.column = [j \in 1..n |-> j - 1],
                           !.color = c, !.label = l, !.cmap = cm] :
              n \in 1..MaxSeries, c \in OptLists, l \in OptLists, cm \in Cmaps}
      [] s = "neb" ->
           {[NoArgs EXCEPT !.input = n, !.color = c, !.label = l, !.linestyle = ls,
                           !.cmap = cm] :
              n \in 1..MaxSeries, c \in OptLists, l \in OptLists, ls \in OptLists,
              cm \in Cmaps}
      [] s = "log" ->
           {[NoArgs EXCEPT !.input = n, !.property = SubSeq(PropertyNames, 1, m),
                           !.color = c, !.label = l] :
              n \in 1..MaxSeries, m \in 1..MaxSeries, c \in OptLists, l \in OptLists}
      [] s = "gasp" -> {[NoArgs EXCEPT !.input = 1]}
      [] s = "band" ->
           {[NoArgs EXCEPT !.elemental = el, !.spin = sp, !.orbital = orb] :
              el \in BOOLEAN, sp \in BOOLEAN, orb \in BOOLEAN}

\* the contents of the args.input files, in order
FilesOf(s, a) ==
    CASE s = "rdf" -> {<<f>> : f \in RdfScriptFiles}
      [] s = "neb" -> [1..a.input -> NebScriptFiles]
      [] s = "gasp" -> {<<f>> : f \in GaspScriptFiles}
      [] s = "log" -> [1..a.input -> {[empty |-> TRUE, headings |-> <<>>, rows |-> <<>>]}]
      [] OTHER -> {<<>>}

\* configuration.json: readable JSON, absent, or not JSON
Configs == {"ok", "missing", "invalid"}
\* the directory of args.output (figures/ by default)
OutputDirs == {"ok", "missing"}

----------------------------------------------------------------------------
(* Spec: one run of one script.                                            *)

Init ==
    /\ script \in Scripts
    /\ args \in ArgsOf(script)
    /\ \E fs \in FilesOf(script, args), cfg \in Configs, od \in OutputDirs :
         env = [config |-> cfg, files |-> fs, outdir |-> od]
    /\ pc = "import"
    /\ handles = {}
    /\ figures = 0
    /\ shown = 0
    /\ mainCalls = 0
    /\ err = NoErr
    /\ loc = NoLoc
    /\ result = <<>>

Next ==
    \/ Import
    \/ OpenConfiguration
    \/ ReadConfiguration
    \/ ParseArgs
    \/ ValidateArgs
    \/ EnterMain
    \/ RdfReadLines
    \/ RdfScanLine
    \/ RdfToArrays
    \/ RdfCosmetics
    \/ RdfPlot
    \/ NebCosmetics
    \/ NebPlotSeries
    \/ GaspParse
    \/ GaspShow
    \/ Savefig

Spec == Init /\ [][Next]_vars

Terminated == pc \in {"done", "failed"}

----------------------------------------------------------------------------
(* Properties of a run (checked under Spec).                               *)

\* the declared series count of the run
SeriesCount ==
    CASE script = "log" -> args.input * Len(args.property)
      [] script = "rdf" -> Len(args.column)
      [] OTHER -> args.input
\* a per-series list was passed and its length is not the series count
Mismatched(o) == o.given /\ o.n # SeriesCount
MismatchProvided ==
    /\ script \in {"log", "rdf", "neb"}
    /\ \/ Mismatched(args.color)
       \/ Mismatched(args.label)
       \/ script = "neb" /\ Mismatched(args.linestyle)

\* the argument checks of the __main__ block have been executed (the input
\* handles opened by parse_args are never closed afterwards)
ValidationDone == InputHandle(1) \in handles /\ pc # "validate"

\* C1: in plot-lammps-log, plot-lammps-rdf and plot-vasp-neb, a run that is
\* given a colour, label or (neb) linestyle list whose length differs from
\* the series count ends at its argument checks with the count-mismatch
\* error (the AssertionError of the failed length assertion) and never
\* enters main().
C1_CountMismatchRejected ==
    (MismatchProvided /\ ValidationDone) =>
        /\ mainCalls = 0
        /\ pc = "failed"
        /\ err = "AssertionError"

\* C2: a failure ends the run, and no figure is written in a run that
\* fails: no step is taken from a failed state (no retry, no savefig after
\* the failure), and a step that raises, or that fails, leaves a run in
\* which savefig has not been executed and main was entered at most once.
C2_FailureIsFatalAndWritesNothing ==
    [][ /\ pc # "failed"
        /\ err = NoErr
        /\ (err' # NoErr \/ pc' = "failed") =>
              (pc' = "failed" /\ err' # NoErr /\ figures' = 0 /\ figures = 0
               /\ mainCalls' <= 1) ]_vars

\* C2's case: plot-vasp-neb fails while parsing its second input file, after
\* the first series has been parsed and plotted.
C2_Witness ==
    /\ script = "neb"
    /\ pc = "failed"
    /\ mainCalls = 1
    /\ Len(result) = 1
    /\ figures = 0

\* the list options of the run are absent or of the right, non-zero length
OptionsMatch ==
    /\ \A o \in {args.color, args.label, args.linestyle} : ~o.given \/ (o.n = SeriesCount /\ o.n > 0)
    /\ args.cmap.given => SeriesCount > 1
\* the run has valid arguments and well-formed input files
ValidRun ==
    /\ env.config = "ok"
    /\ env.outdir = "ok"
    /\ OptionsMatch
    /\ script = "rdf" => env.files[1] = RdfFile(<<B(1, 2, 2), B(3, 2, 2)>>)
    /\ script = "neb" => \A i \in DOMAIN env.files : env.files[i] = NebGoodFile
    /\ script = "gasp" => env.files[1] = GaspGoodFile
    /\ script = "band" => ~args.elemental /\ ~args.orbital

\* C3: a run with valid arguments and well-formed input ends normally,
\* having written exactly one figure.
C3_ValidRunWritesOneFigure ==
    (Terminated /\ ValidRun) => (pc = "done" /\ figures = 1)

\* C4: when a run has ended, normally or by an exception, no file handle
\* it opened is still open.
C4_NoHandleOpenAtExit ==
    Terminated => handles = {}

----------------------------------------------------------------------------
(* SpecGasp: main of plot-gasp-hull.py on the run_data files of GaspFiles. *)

InitGasp ==
    /\ script = "gasp"
    /\ args = [NoArgs EXCEPT !.input = 1]
    /\ \E f \in GaspFiles : env = [config |-> "ok", files |-> <<f>>, outdir |-> "ok"]
    /\ pc = "main"
    /\ handles = {InputHandle(1)}
    /\ figures = 0
    /\ shown = 0
    /\ mainCalls = 0
    /\ err = NoErr
    /\ loc = NoLoc
    /\ result = <<>>

NextGasp ==
    \/ EnterMain
    \/ GaspParse
    \/ GaspShow

SpecGasp == InitGasp /\ [][NextGasp]_vars

\* sum of a function with a finite domain
RECURSIVE SumFn(_)
SumFn(f) ==
    IF DOMAIN f = {} THEN 0
    ELSE LET x == CHOOSE x \in DOMAIN f : TRUE
         IN  f[x] + SumFn([y \in DOMAIN f \ {x} |-> f[y]])

\* the data rows of the file, in file order
DataRows(file) == SelectSeq(file, LAMBDA l : l.kind = "row")
\* the endpoint formulas listed on the first line
EndpointFormulas(file) ==
    LET first == SelectSeq(file, LAMBDA l : l.kind = "endpoints")[1].endpoints
    IN  {reduced_formula(first[k]) : k \in DOMAIN first}
\* the epa values of the rows whose composition reduces to formula f
MatchingEpa(file, f) ==
    {DataRows(file)[k].epa :
        k \in {j \in DOMAIN DataRows(file) : reduced_formula(DataRows(file)[j].composition) = f}}
GaspParsed == script = "gasp" /\ pc \in {"gasp_show", "done"}

\* C5: after a successful parse, the reference energy of every endpoint
\* formula of the first line is the least epa among the rows that reduce to
\* it, whatever its sign, and is 0 exactly when no row reduces to it.
C5_ReferenceIsMinimumEpa ==
    GaspParsed =>
        \A f \in EndpointFormulas(env.files[1]) :
            LET m == MatchingEpa(env.files[1], f) IN
            /\ m # {} => result.endpoint_energy[f] = Min(m)
            /\ result.endpoint_energy[f] = 0 <=> m = {}

\* C6: after a successful parse there is one entry per data row, in file
\* order, with that row's composition, and its formation energy is the
\* row's total_energy minus the sum, over the distinct endpoint formulas, of
\* the reference energy times the row's number of atoms of that endpoint.
C6_OneEntryPerRowWithFormationEnergy ==
    GaspParsed =>
        LET rows == DataRows(env.files[1])
            fs == EndpointFormulas(env.files[1])
        IN  /\ Len(result.entries) = Len(rows)
            /\ \A k \in DOMAIN rows :
                 /\ result.entries[k].composition = rows[k].composition
                 /\ result.entries[k].eform =
                      rows[k].total_energy
                      - SumFn([f \in fs |-> result.endpoint_energy[f]
                                              * rows[k].composition[ElementOf(f)]])

\* C6's case: a file with blank lines and two endpoints, whose second data
\* row holds two atoms of an endpoint with a non-zero reference energy.
C6_Witness ==
    /\ GaspParsed
    /\ \E k \in DOMAIN env.files[1] : env.files[1][k].kind = "blank"
    /\ Len(result.entries) = 2
    /\ Len(result.keys) = 2
    /\ result.entries[2].composition = Comp(2, 0)
    /\ result.endpoint_energy[Comp(1, 0)] < 0
    /\ result.entries[2].eform # DataRows(env.files[1])[2].total_energy

----------------------------------------------------------------------------
(* SpecRdf: main of plot-lammps-rdf.py on the files of RdfFiles.           *)

InitRdf ==
    /\ script = "rdf"
    /\ \E cols \in RdfColumnLists : args = [NoArgs EXCEPT !.input = 1, !.column = cols]
    /\ \E f \in RdfFiles : env = [config |-> "ok", files |-> <<f>>, outdir |-> "ok"]
    /\ pc = "main"
    /\ handles = {InputHandle(1)}
    /\ figures = 0
    /\ shown = 0
    /\ mainCalls = 0
    /\ err = NoErr
    /\ loc = NoLoc
    /\ result = <<>>

NextRdf ==
    \/ EnterMain
    \/ RdfReadLines
    \/ RdfScanLine
    \/ RdfToArrays
    \/ RdfCosmetics
    \/ RdfPlot
    \/ Savefig

SpecRdf == InitRdf /\ [][NextRdf]_vars

\* positions, in the file, of the block headers: the lines after the first
\* two that have exactly two tokens
HeaderLines(file) == {i \in DOMAIN file : i > 2 /\ Len(file[i]) = 2}
RdfPlotted == script = "rdf" /\ pc \in {"savefig", "done"} /\ result.distances.given
RdfReturned == script = "rdf" /\ pc \in {"rdf_cosmetics", "rdf_plot", "savefig", "done"}

\* C9: every plotted curve, for requested column c, has at bin k the
\* arithmetic mean over all blocks of the file of the token at raw position
\* c+2 of the block's k-th body line.
C9_CurveIsMeanOverBlocks ==
    RdfPlotted =>
        LET file == env.files[1]
            hs == HeaderLines(file)
        IN  \A j \in DOMAIN result.curves : \A k \in DOMAIN result.curves[j] :
                result.curves[j][k] =
                    Frac(SumFn([i \in hs |-> file[i + k][args.column[j] + 3]]),
                         Cardinality(hs))

\* C9's case: column 0 of a file with the two blocks [1, 2] and [3, 4] is
\* plotted as [2.0, 3.0].
C9_Witness ==
    /\ script = "rdf"
    /\ pc = "done"
    /\ args.column = <<0>>
    /\ env.files[1] = RdfFile(<<B(1, 2, 2), B(3, 2, 2)>>)
    /\ result.curves = <<<<Frac(2, 1), Frac(3, 1)>>>>

\* C10: when _parse_rdf_file returns, the number of blocks of every
\* requested column is the number of two-token lines, the distance axis has
\* as many entries as the first block declares rows, and every block holds
\* exactly that many values for every requested column (also when the file
\* ends before the declared number of rows).
C10_FullBlocksOfDeclaredLength ==
    (RdfReturned /\ HeaderLines(env.files[1]) # {}) =>
        LET file == env.files[1]
            hs == HeaderLines(file)
            N == file[Min(hs)][2]
        IN  /\ Len(result.distances.val) = N
            /\ \A col \in Range(args.column) :
                 /\ Len(result.column_data[col]) = Cardinality(hs)
                 /\ \A b \in DOMAIN result.column_data[col] :
                      Len(result.column_data[col][b]) = N

----------------------------------------------------------------------------
(* SpecLog: parse_lammps_log_file(fp, property_names) as a unit.  Its     *)
(* inputs are the file, the parameter property_names and the module-global *)
(* args.property that its body reads.                                      *)

InitLog ==
    /\ script = "parse_lammps_log_file"
    /\ \E p \in LogPropertyLists, q \in LogPropertyLists :
         /\ args = [NoArgs EXCEPT !.input = 1, !.property = q]
         /\ loc = [i |-> 0, property_names |-> p, headings |-> <<>>, segments |-> <<>>,
                   tokenized |-> 0]
    /\ \E f \in LogFiles : env = [config |-> "ok", files |-> <<f>>, outdir |-> "ok"]
    /\ pc = "log_parse"
    /\ handles = {InputHandle(1)}
    /\ figures = 0
    /\ shown = 0
    /\ mainCalls = 1
    /\ err = NoErr
    /\ result = <<>>

NextLog ==
    \/ LogReadHeader
    \/ LogTokenize
    \/ LogExtract

SpecLog == InitLog /\ [][NextLog]_vars

WantedInHeader == Range(loc.property_names) \subseteq Range(env.files[1].headings)
StepInHeader == "Step" \in Range(env.files[1].headings)

\* C7: for a log whose header holds Step and every name of the list passed
\* as property_names, the returned map has exactly the names of that list as
\* keys and each of its sequences is as long as the returned steps, one
\* value per data row.
C7_PropertiesMatchSteps ==
    (pc = "returned" /\ StepInHeader /\ WantedInHeader) =>
        /\ DOMAIN result.properties = Range(loc.property_names)
        /\ Len(result.steps) = Len(env.files[1].rows)
        /\ \A p \in DOMAIN result.properties :
             Len(result.properties[p]) = Len(result.steps)

\* C8: when the header lacks a needed column the parser ends with an error
\* and returns nothing: without "Step" it raises the missing-column error
\* (the documented AssertionError) before any data row is tokenized, and
\* with "Step" but without a wanted property it raises the
\* unknown-property error (KeyError).
C8_AbsentColumnRaises ==
    (script = "parse_lammps_log_file" /\ ~env.files[1].empty /\ pc \in {"failed", "returned"}) =>
        /\ ~StepInHeader => (pc = "failed" /\ err = "AssertionError" /\ loc.tokenized = 0)
        /\ (StepInHeader /\ ~WantedInHeader) => (pc = "failed" /\ err = "KeyError")

----------------------------------------------------------------------------
(* plot-vasp-bandstructure.py: parse_band_file, statement by statement.    *)
(* A band file is [labels, meta, nkpts, nbands, rest]: the tokens of its   *)
(* header line, whether the text after the last ':' of line 1 splits into  *)
(* two integers, those integers, and the token lists of the lines from     *)
(* index 2 on (rest[k] is the line at index k + 1).                        *)

MaxKpts == 2
MaxBands == 2

\* for label, col_data in zip(labels, data): _band_data[label].append(col_data)
RECURSIVE ZipAppend(_, _, _)
ZipAppend(band, labels, data) ==
    IF labels = <<>> \/ data = <<>> THEN band
    ELSE ZipAppend([band EXCEPT ![Head(labels)] = Append(@, Head(data))],
                   Tail(labels), Tail(data))

\* lines 132-146: read the lines, split the header, unpack the metadata
BandReadHeader ==
    /\ pc = "band_parse"
    /\ LET f == env.files[1] IN
       IF ~f.meta THEN Fail("ValueError") /\ loc' = loc
       ELSE /\ loc' = [loc EXCEPT !.labels = f.labels, !.nkpts = f.nkpts,
                                  !.nbands = f.nbands, !.i = 0, !.band_data = <<>>]
            /\ pc' = "band_for_i"
            /\ err' = err
    /\ UNCHANGED <<script, args, env, handles, figures, shown, mainCalls, result>>

\* lines 148-150: next band section, with an empty list per label
BandNextBand ==
    /\ pc = "band_for_i"
    /\ loc.i < loc.nbands
    /\ loc' = [loc EXCEPT !.index = 3 + loc.i * loc.nkpts, !.j = 0,
                          !._band_data = [l \in Range(loc.labels) |-> <<>>]]
    /\ pc' = "band_for_j"
    /\ UNCHANGED <<script, args, env, handles, figures, shown, mainCalls, err, result>>

\* lines 151-157: one row of the band: lines[index + j], floats, zip
BandRow ==
    /\ pc = "band_for_j"
    /\ loc.j < loc.nkpts
    /\ LET rest == env.files[1].rest
           n == loc.index + loc.j
       IN
       IF n - 1 > Len(rest) THEN Fail("IndexError") /\ loc' = loc
       ELSE IF \E k \in DOMAIN rest[n - 1] : ~IsNum(rest[n - 1][k])
       THEN Fail("ValueError") /\ loc' = loc
       ELSE /\ loc' = [loc EXCEPT !.j = loc.j + 1,
                                  !._band_data = ZipAppend(loc._band_data, loc.labels, rest[n - 1])]
            /\ pc' = pc
            /\ err' = err
    /\ UNCHANGED <<script, args, env, handles, figures, shown, mainCalls, result>>

\* line 158: band_data.append(_band_data)
BandAppend ==
    /\ pc = "band_for_j"
    /\ loc.j = loc.nkpts
    /\ loc' = [loc EXCEPT !.band_data = Append(loc.band_data, loc._band_data), !.i = loc.i + 1]
    /\ pc' = "band_for_i"
    /\ UNCHANGED <<script, args, env, handles, figures, shown, mainCalls, err, result>>

\* line 159: return band_data
BandReturn ==
    /\ pc = "band_for_i"
    /\ loc.i = loc.nbands
    /\ result' = loc.band_data
    /\ pc' = "returned"
    /\ UNCHANGED <<script, args, env, handles, figures, shown, mainCalls, err, loc>>

\* Band files.  A data row holds a position and one energy per channel,
\* numbered by its place in the file so that every row differs.
BandLabelLists == {<<"K", "E">>, <<"K", "Up", "Down">>}
BandIndexLine == <<Word, Word, 1>>
BandDataRow(r, width) == [c \in 1..width |-> 10 * r + c]
\* the rows of band i (0-based) in a file of nkpts rows per band
BandSection(i, nkpts, width) == [j \in 1..nkpts |-> BandDataRow(i * nkpts + j, width)]
RECURSIVE BandSections(_, _, _, _, _)
\* the sections of bands i..nbands-1, with the lines of sep between two bands
\* (the blank line and the next "# Band-Index" line of a multi-band file)
BandSections(i, nbands, nkpts, width, sep) ==
    IF i >= nbands THEN <<>>
    ELSE (IF i = 0 THEN <<>> ELSE sep) \o BandSection(i, nkpts, width)
            \o BandSections(i + 1, nbands, nkpts, width, sep)
BandLayouts == {"contiguous", "separated", "cut", "wide"}
BandRest(layout, nkpts, nbands, width) ==
    LET rows == BandSections(0, nbands, nkpts, width, <<>>) IN
    <<BandIndexLine>> \o
    CASE layout = "contiguous" -> rows
      [] layout = "separated" -> BandSections(0, nbands, nkpts, width, <<<<>>, BandIndexLine>>)
      [] layout = "cut" -> SubSeq(rows, 1, Len(rows) - 1)
      [] layout = "wide" -> [k \in DOMAIN rows |-> Append(rows[k], 0)]
BandFiles ==
    {[labels |-> ls, meta |-> TRUE, nkpts |-> nk, nbands |-> nb,
      rest |-> BandRest(lay, nk, nb, Len(ls))] :
        ls \in BandLabelLists, nk \in 0..MaxKpts, nb \in 0..MaxBands, lay \in BandLayouts}
    \cup {[labels |-> <<"K", "E">>, meta |-> FALSE, nkpts |-> 0, nbands |-> 0, rest |-> <<>>]}

(* SpecBandFile: parse_band_file(filepath) as a unit. *)
InitBandFile ==
    /\ script = "parse_band_file"
    /\ args = NoArgs
    /\ \E f \in BandFiles : env = [config |-> "ok", files |-> <<f>>, outdir |-> "ok"]
    /\ loc = [i |-> 0, j |-> 0, index |-> 0, labels |-> <<>>, nkpts |-> 0, nbands |-> 0,
              _band_data |-> <<>>, band_data |-> <<>>]
    /\ pc = "band_parse"
    /\ handles = {}
    /\ figures = 0
    /\ shown = 0
    /\ mainCalls = 0
    /\ err = NoErr
    /\ result = <<>>

NextBandFile ==
    \/ BandReadHeader
    \/ BandNextBand
    \/ BandRow
    \/ BandAppend
    \/ BandReturn

SpecBandFile == InitBandFile /\ [][NextBandFile]_vars

\* the line at 0-based index n of the band file (n >= 2)
BandFileLine(n) == env.files[1].rest[n - 1]

\* C11: when parse_band_file returns for a file whose metadata line ends in
\* ": nkpts nbands", it returns nbands bands, each with nkpts rows under
\* every column label, and row j of band i under the k-th label is the k-th
\* token of the line at index 3 + i*nkpts + j.
C11_BandsOfDeclaredShape ==
    (script = "parse_band_file" /\ pc = "returned") =>
        LET f == env.files[1] IN
        /\ Len(result) = f.nbands
        /\ \A i \in 1..Len(result) :
             /\ DOMAIN result[i] = Range(f.labels)
             /\ \A k \in DOMAIN f.labels :
                  /\ Len(result[i][f.labels[k]]) = f.nkpts
                  /\ \A j \in 1..f.nkpts :
                       result[i][f.labels[k]][j] = BandFileLine(3 + (i - 1) * f.nkpts + (j - 1))[k]

----------------------------------------------------------------------------
(* SpecNebFile: parse_vasp_neb_file(fp) as a unit.                         *)

MaxImages == 3

\* line 23: lines = [line.strip() for line in fp.readlines()]
NebReadLines ==
    /\ pc = "neb_parse"
    /\ loc' = [loc EXCEPT !.lines = env.files[1]]
    /\ pc' = "neb_extract"
    /\ UNCHANGED <<script, args, env, handles, figures, shown, mainCalls, err, result>>

\* lines 25-31: positions, energies, max_pos, scaled_positions, return
NebExtract ==
    /\ pc = "neb_extract"
    /\ LET r == parse_vasp_neb_file(loc.lines) IN
       IF r.err # NoErr THEN Fail(r.err) /\ result' = result
       ELSE /\ result' = r
            /\ pc' = "returned"
            /\ err' = err
    /\ UNCHANGED <<script, args, env, handles, figures, shown, mainCalls, loc>>

\* neb.dat files: line k is (image, position, energy, force, image)
NebPositions == {0 - 5, 0, 5, 10}
NebLine(k, pos) == <<k - 1, pos, 3 * k, 0, k - 1>>
NebParserFiles ==
    UNION {{[k \in 1..n |-> NebLine(k, ps[k])] : ps \in [1..n -> NebPositions]} : n \in 0..MaxImages}
       \cup {<<NebLine(1, 0), <<1, 5>>>>, <<NebLine(1, 0), <<1, Word, 6, 0, 1>>>>}

InitNebFile ==
    /\ script = "parse_vasp_neb_file"
    /\ args = [NoArgs EXCEPT !.input = 1]
    /\ \E f \in NebParserFiles : env = [config |-> "ok", files |-> <<f>>, outdir |-> "ok"]
    /\ loc = [i |-> 0, lines |-> <<>>]
    /\ pc = "neb_parse"
    /\ handles = {InputHandle(1)}
    /\ figures = 0
    /\ shown = 0
    /\ mainCalls = 1
    /\ err = NoErr
    /\ result = <<>>

NextNebFile ==
    \/ NebReadLines
    \/ NebExtract

SpecNebFile == InitNebFile /\ [][NextNebFile]_vars

\* every line of the file has an image id, a position and an energy that
\* float() accepts, and there is at least one line
NebWellFormed ==
    /\ env.files[1] # <<>>
    /\ \A k \in DOMAIN env.files[1] :
         Len(env.files[1][k]) >= 3 /\ IsNum(env.files[1][k][2]) /\ IsNum(env.files[1][k][3])
RawPositions == [k \in DOMAIN env.files[1] |-> env.files[1][k][2]]
\* the returned pair holds, per line and in file order, the line's energy
\* and its position divided by the maximum position; all within [0, 1],
\* the maximum being 1
NebNormalized ==
    /\ pc = "returned"
    /\ Len(result.energies) = Len(env.files[1])
    /\ Len(result.scaled_positions) = Len(env.files[1])
    /\ \A k \in DOMAIN env.files[1] :
         /\ result.energies[k] = env.files[1][k][3]
         /\ result.scaled_positions[k].den > 0
         /\ result.scaled_positions[k].num * Max(Range(RawPositions))
               = RawPositions[k] * result.scaled_positions[k].den
         /\ 0 <= result.scaled_positions[k].num
         /\ result.scaled_positions[k].num <= result.scaled_positions[k].den
    /\ \E k \in DOMAIN env.files[1] :
         result.scaled_positions[k].num = result.scaled_positions[k].den

\* C12 as stated: every neb.dat whose lines carry numeric positions and
\* energies is parsed into normalized positions within [0, 1] with maximum 1.
C12_AlwaysSpansUnitInterval ==
    (script = "parse_vasp_neb_file" /\ pc \in {"returned", "failed"} /\ NebWellFormed)
        => NebNormalized

\* C12 (amended): for every neb.dat whose raw positions are non-negative
\* with a positive maximum, parse_vasp_neb_file returns one energy and one
\* normalized position per line, in file order, each position being the raw
\* position divided by the maximum raw position, all within [0, 1] and the
\* largest equal to 1.
C12_NormalizedByPositiveMaximum ==
    (/\ script = "parse_vasp_neb_file" /\ pc \in {"returned", "failed"} /\ NebWellFormed
     /\ \A k \in DOMAIN RawPositions : RawPositions[k] >= 0
     /\ Max(Range(RawPositions)) > 0)
        => NebNormalized

\* positions [0, 5, 10] have been normalized to [0, 1/2, 1]
C12_Witness ==
    /\ script = "parse_vasp_neb_file"
    /\ pc = "returned"
    /\ RawPositions = <<0, 5, 10>>
    /\ result.scaled_positions = <<[num |-> 0, den |-> 1], [num |-> 1, den |-> 2], [num |-> 1, den |-> 1]>>

----------------------------------------------------------------------------
(* plot-vasp-bandstructure.py: parse_klabels_file, statement by statement. *)
(* The KLABELS file is a list of lines, each the list of its tokens; a     *)
(* data line is <<label, position>>, a blank line is <<>>.                 *)

MaxKlabels == 2

GammaSymbol == "$\\Gamma$"

\* the label kept as it stands in the file
klabel_unformatted(klabel) == klabel

\* lines 112-113: if klabel == "GAMMA": klabel = r"$\Gamma$"
format_klabel(klabel) == IF klabel = "GAMMA" THEN GammaSymbol ELSE klabel

\* lines.index(""): the 0-based index of the first blank line
end_index(lines) == Min({k \in DOMAIN lines : Len(lines[k]) = 0}) - 1

\* lines 97-108: read and close the file, locate the first blank line, keep
\* lines[1:end_index]
KlabelsRead ==
    /\ pc = "klabels_parse"
    /\ LET lines == env.files[1] IN
       IF \A k \in DOMAIN lines : Len(lines[k]) # 0
       THEN Fail("ValueError") /\ loc' = loc               \* "" is not in list
       ELSE /\ loc' = [loc EXCEPT !.data = Slice(lines, 1, end_index(lines)),
                                  !.i = 0, !.klabels = <<>>, !.kpositions = <<>>]
            /\ pc' = "klabels_loop"
            /\ err' = err
    /\ UNCHANGED <<script, args, env, handles, figures, shown, mainCalls, result>>

\* lines 109-116: one iteration of `for line in data`
KlabelsRow ==
    /\ pc = "klabels_loop"
    /\ loc.i < Len(loc.data)
    /\ LET line == loc.data[loc.i + 1] IN
       IF Len(line) # 2 THEN Fail("ValueError") /\ loc' = loc       \* unpacking
       ELSE IF ~IsNum(line[2]) THEN Fail("ValueError") /\ loc' = loc
       ELSE /\ loc' = [loc EXCEPT !.i = loc.i + 1,
                                  !.klabels = Append(loc.klabels, format_klabel(line[1])),
                                  !.kpositions = Append(loc.kpositions, line[2])]
            /\ pc' = pc
            /\ err' = err
    /\ UNCHANGED <<script, args, env, handles, figures, shown, mainCalls, result>>

\* line 117: return klabels, kpositions
KlabelsReturn ==
    /\ pc = "klabels_loop"
    /\ loc.i = Len(loc.data)
    /\ result' = [klabels |-> loc.klabels, kpositions |-> loc.kpositions]
    /\ pc' = "returned"
    /\ UNCHANGED <<script, args, env, handles, figures, shown, mainCalls, err, loc>>

\* KLABELS files: a header, data lines, and what follows them
KlabelNames == {"GAMMA", "M", "K"}
KlabelsHeader == <<"K-Label", "K-Coordinate">>
KlabelsDataLists ==
    UNION {{[k \in 1..n |-> <<ls[k], 5 * (k - 1)>>] : ls \in [1..n -> KlabelNames]} :
             n \in 0..MaxKlabels}
KlabelsTails ==
    {<<>>, <<<<>>>>, <<<<>>, <<"X", 9>>>>, <<<<>>, <<"*", "Give", "the", "label">>, <<>>>>,
     <<<<"M">>, <<>>>>, <<<<"M", Word>>, <<>>>>}
KlabelsFiles == {<<KlabelsHeader>> \o d \o t : d \in KlabelsDataLists, t \in KlabelsTails}
                   \cup {<<>>, <<<<>>, <<"M", 5>>>>}

(* SpecKlabels: parse_klabels_file() as a unit. *)
InitKlabels ==
    /\ script = "parse_klabels_file"
    /\ args = NoArgs
    /\ \E f \in KlabelsFiles : env = [config |-> "ok", files |-> <<f>>, outdir |-> "ok"]
    /\ loc = [i |-> 0, data |-> <<>>, klabels |-> <<>>, kpositions |-> <<>>]
    /\ pc = "klabels_parse"
    /\ handles = {}
    /\ figures = 0
    /\ shown = 0
    /\ mainCalls = 0
    /\ err = NoErr
    /\ result = <<>>

NextKlabels ==
    \/ KlabelsRead
    \/ KlabelsRow
    \/ KlabelsReturn

SpecKlabels == InitKlabels /\ [][NextKlabels]_vars

\* 1-based positions of the blank lines of the file
KlabelsBlanks == {k \in DOMAIN env.files[1] : Len(env.files[1][k]) = 0}
\* the lines after the header and before the first blank line
KlabelsDataLines ==
    IF KlabelsBlanks = {} THEN <<>>
    ELSE SubSeq(env.files[1], 2, Min(KlabelsBlanks) - 1)
\* there is a blank line and every line before it, the header apart, is a
\* label followed by a numeral
KlabelsWellFormed ==
    /\ KlabelsBlanks # {}
    /\ \A k \in DOMAIN KlabelsDataLines :
         Len(KlabelsDataLines[k]) = 2 /\ IsNum(KlabelsDataLines[k][2])

\* C13: parse_klabels_file returns, for a KLABELS file with a blank line
\* after its (label, position) lines, one pair per line between the header
\* and the first blank line, in file order, and none for the header or for
\* a line after the blank one; GAMMA becomes the Gamma symbol, every other
\* label is unchanged, and labels and positions have equal length.
C13_KlabelsUpToFirstBlankLine ==
    (script = "parse_klabels_file" /\ pc \in {"returned", "failed"}
         /\ (pc = "returned" \/ KlabelsWellFormed)) =>
        /\ pc = "returned"
        /\ Len(result.klabels) = Len(KlabelsDataLines)
        /\ Len(result.kpositions) = Len(result.klabels)
        /\ \A k \in DOMAIN KlabelsDataLines :
             /\ result.kpositions[k] = KlabelsDataLines[k][2]
             /\ KlabelsDataLines[k][1] = "GAMMA" => result.klabels[k] = GammaSymbol
             /\ KlabelsDataLines[k][1] # "GAMMA" => result.klabels[k] = KlabelsDataLines[k][1]

\* a file with GAMMA, another label and a line after the blank line has
\* been parsed
C13_Witness ==
    /\ script = "parse_klabels_file"
    /\ pc = "returned"
    /\ env.files[1] = <<KlabelsHeader, <<"GAMMA", 0>>, <<"M", 5>>, <<>>, <<"X", 9>>>>
    /\ result = [klabels |-> <<GammaSymbol, "M">>, kpositions |-> <<0, 5>>]

----------------------------------------------------------------------------
(* Claims on the runs of plot-vasp-bandstructure.py and plot-lammps-log.py *)
(* (specification Spec).                                                   *)

Unsupported == script = "band" /\ (args.elemental \/ args.orbital)

\* C14: a run of plot-vasp-bandstructure with --elemental or --orbital ends
\* in failure, with NotImplementedError once configuration.json has been
\* loaded, and at no point of the run has main() been entered, an input
\* file been opened or a figure been rendered.
C14_UnsupportedRejectedBeforeRendering ==
    Unsupported =>
        /\ mainCalls = 0
        /\ figures = 0
        /\ shown = 0
        /\ handles \subseteq {ConfigHandle}
        /\ Terminated => pc = "failed"
        /\ (Terminated /\ env.config = "ok") => err = "NotImplementedError"

\* a run with --elemental has been rejected
C14_Witness ==
    /\ Unsupported
    /\ args.elemental
    /\ ~args.orbital
    /\ pc = "failed"
    /\ err = "NotImplementedError"

----------------------------------------------------------------------------
(* SpecLabels: utils.process_label_args(args, n_series) as a unit.  Here   *)
(* args.label carries its values: [given, n, vals] with n = Len(vals).     *)

\* lines 124-128: the list bound to `labels`
labels_of(a, n_series) ==
    IF Truthy(a.label) THEN a.label.vals ELSE [k \in 1..n_series |-> ""]

LabelTexts == {"a", "b", ""}
LabelOptions ==
    {[given |-> FALSE, n |-> 0, vals |-> <<>>]}
       \cup {[given |-> TRUE, n |-> Len(v), vals |-> v] : v \in SeqsUpTo(LabelTexts, MaxOpt)}

\* the call: args and n_series are bound
LabelsCall ==
    /\ pc = "labels_call"
    /\ \E n \in 0..MaxSeries : loc' = [loc EXCEPT !.n_series = n]
    /\ pc' = "labels_body"
    /\ UNCHANGED <<script, args, env, handles, figures, shown, mainCalls, err, result>>

\* lines 121-129: the body and the return
LabelsReturn ==
    /\ pc = "labels_body"
    /\ result' = [render_legend |-> process_label_args(args, loc.n_series).render_legend,
                  labels |-> labels_of(args, loc.n_series)]
    /\ pc' = "returned"
    /\ UNCHANGED <<script, args, env, handles, figures, shown, mainCalls, err, loc>>

InitLabels ==
    /\ script = "process_label_args"
    /\ \E l \in LabelOptions : args = [NoArgs EXCEPT !.label = l]
    /\ env = [config |-> "ok", files |-> <<>>, outdir |-> "ok"]
    /\ loc = [i |-> 0, n_series |-> 0]
    /\ pc = "labels_call"
    /\ handles = {}
    /\ figures = 0
    /\ shown = 0
    /\ mainCalls = 0
    /\ err = NoErr
    /\ result = <<>>

NextLabels ==
    \/ LabelsCall
    \/ LabelsReturn

SpecLabels == InitLabels /\ [][NextLabels]_vars

\* no label has been supplied: the option is absent or has no value
NoLabels == ~args.label.given \/ args.label.vals = <<>>

\* C15: process_label_args returns, when no label is supplied, n_series
\* empty strings and a legend flag of false, and, when labels are supplied,
\* the supplied list unchanged and a legend flag of true.
C15_DefaultLabelsSuppressLegend ==
    (script = "process_label_args" /\ pc = "returned") =>
        /\ NoLabels =>
             /\ result.render_legend = FALSE
             /\ Len(result.labels) = loc.n_series
             /\ \A k \in DOMAIN result.labels : result.labels[k] = ""
        /\ ~NoLabels =>
             /\ result.render_legend = TRUE
             /\ result.labels = args.label.vals
        /\ Len(result.labels) = process_label_args(args, loc.n_series).n_labels

\* two series without labels have got two empty labels and no legend
C15_Witness ==
    /\ script = "process_label_args"
    /\ pc = "returned"
    /\ ~args.label.given
    /\ loc.n_series = 2
    /\ result = [render_legend |-> FALSE, labels |-> <<"", "">>]

\* the run of plot-lammps-log has gone past the checks of lines 158-169
PastCardinalityChecks == script = "log" /\ (pc \in {"main", "done"} \/ mainCalls > 0)

\* C16: a run of plot-lammps-log (configuration.json readable, no colour or
\* label list given) gets past its cardinality checks exactly when it has
\* one input file or one property, and then the series count
\* len(input) * len(property) is the larger of the two lengths.
C16_AcceptsOneInputOrOneProperty ==
    (script = "log" /\ Terminated /\ env.config = "ok"
         /\ ~args.color.given /\ ~args.label.given) =>
        /\ PastCardinalityChecks <=> (args.input = 1 \/ Len(args.property) = 1)
        /\ PastCardinalityChecks =>
             args.input * Len(args.property) = Max({args.input, Len(args.property)})

----------------------------------------------------------------------------
(* SpecCmap: utils._discretize_colormap(cmap_name, n_colors) as a unit, as *)
(* process_color_and_cmap_args calls it when no colour is given and a      *)
(* colormap is named.  The source colormap is given by its size N; the     *)
(* result by the indices of the source colours it keeps.                   *)

MaxCmapN == 10
MaxColors == 5

\* lines 21-23: cmap = plt.get_cmap(cmap_name); step = int(cmap.N / (n_colors - 1))
CmapStep ==
    /\ pc = "cmap_step"
    /\ IF loc.n_colors - 1 = 0
       THEN Fail("ZeroDivisionError") /\ loc' = loc
       ELSE /\ loc' = [loc EXCEPT !.step = loc.N \div (loc.n_colors - 1)]
            /\ pc' = "cmap_select"
            /\ err' = err
    /\ UNCHANGED <<script, args, env, handles, figures, shown, mainCalls, result>>

\* lines 24-30: valid_indices, the colours kept, the colormap built of them
CmapSelect ==
    /\ pc = "cmap_select"
    /\ result' = _discretize_colormap(loc.N, loc.n_colors).val
    /\ pc' = "returned"
    /\ UNCHANGED <<script, args, env, handles, figures, shown, mainCalls, err, loc>>

InitCmap ==
    /\ script = "_discretize_colormap"
    /\ \E N \in 1..MaxCmapN, n \in 1..MaxColors :
         /\ args = [NoArgs EXCEPT !.cmap = [given |-> TRUE, N |-> N]]
         /\ loc = [i |-> 0, N |-> N, n_colors |-> n, step |-> 0]
    /\ env = [config |-> "ok", files |-> <<>>, outdir |-> "ok"]
    /\ pc = "cmap_step"
    /\ handles = {}
    /\ figures = 0
    /\ shown = 0
    /\ mainCalls = 0
    /\ err = NoErr
    /\ result = {}

NextCmap ==
    \/ CmapStep
    \/ CmapSelect

SpecCmap == InitCmap /\ [][NextCmap]_vars

\* C17: for every colormap size N and every n_colors >= 1,
\* _discretize_colormap returns without raising and keeps exactly n_colors
\* colours, at pairwise distinct indices within 0..N-1 of the source.
C17_KeepsExactlyNColors ==
    (script = "_discretize_colormap" /\ pc \in {"returned", "failed"}) =>
        /\ pc = "returned"
        /\ result \subseteq 0..(loc.N - 1)
        /\ Cardinality(result) = loc.n_colors

====
